---- MODULE Spec2Model ----
(***************************************************************************)
(* Inventory / availability / booking engine of the Foothills backend.     *)
(*                                                                         *)
(* The Service collection (listings with their embedded inventory record)  *)
(* and the Booking collection (the ledger) are the persistent state.  Each *)
(* controller handler is one action (requests executed one at a time):     *)
(* Spec runs the booking life cycle, SpecInventory adds the inventory      *)
(* administration, SpecBulk runs bulk-update batches, SpecAvail the        *)
(* availability check on drawn ledgers, SpecDuration the duration          *)
(* validator on drawn policies; SpecConc splits createInventoryBooking at  *)
(* its database calls so that parallel requests interleave.  SpecNotes     *)
(* adds notes to updateBooking, SpecCalendar runs blockDates, unblockDates *)
(* and updateService on the blocked dates of a listing, SpecDateCheck the  *)
(* date-range availability check, SpecLegacy the legacy single-date        *)
(* endpoint (instants in quarter hours there), SpecPolicy the booking      *)
(* length policy under updateInventory and the bulk update,                *)
(* SpecLegacyCancel the cancellation of legacy bookings.  SpecCancelRace,  *)
(* SpecStatusRace, SpecInventoryRace and SpecLegacyRace split cancelBooking,*)
(* updateBooking, updateInventory and the legacy createBooking at their    *)
(* database calls and run them in parallel.                                *)
(*                                                                         *)
(* Time is counted in ticks of half a day, so that the Math.ceil of the    *)
(* duration validator is not the identity.                                 *)
(***************************************************************************)
EXTENDS Integers, Sequences, FiniteSets, TLC

VARIABLES
    services,   \* Service collection: listing id -> inventory record
    bookings,   \* Booking collection: sequence of booking documents, _id = index
    now,        \* the clock read by new Date()
    resp,       \* the response of the last handled request
    reqs,       \* in-flight createInventoryBooking requests (SpecConc)
    unavailableDates    \* Service.unavailableDates: listing id -> array of dates

vars == <<services, bookings, now, resp, reqs, unavailableDates>>

----------------------------------------------------------------------------
(* Bounds of the model *)

MaxUnits    == 2    \* request bodies carry unit counts 0 .. MaxUnits
MaxBookings == 2    \* size of the ledger
MaxNow      == 1    \* last clock value
MaxItems    == 2    \* length of a bulk-update batch
MaxDays     == 2    \* request bodies carry day counts 0 .. MaxDays
MaxDurDays  == 6    \* SpecDuration: day counts range over 0 .. MaxDurDays
NumReqs     == 2    \* SpecConc: number of parallel requests

(* Program constants *)

TicksPerDay   == 2      \* one day, the divisor 1000 * 60 * 60 * 24 of the validator
UnitsLimit    == 100    \* Joi / Mongoose max of totalUnits and availableUnits
DaysLimit     == 365    \* Joi / Mongoose max of minBookingDays and maxBookingDays
DefaultMaxDays == 30    \* schema default of maxBookingDays

----------------------------------------------------------------------------
(* Identities *)

Listings  == {1, 2}     \* ids of the documents of the Service collection
NoListing == 3          \* a well-formed id with no Service document
BadId     == 0          \* a value that is not a well-formed ObjectId

Customer == [id |-> 11, role |-> "customer"]
Provider == [id |-> 12, role |-> "provider"]
Admin    == [id |-> 13, role |-> "admin"]
Callers  == {Customer, Provider, Admin}

\* Service.provider: both listings belong to the provider account
provider(serviceId) == Provider.id

BookingStatus == {"pending", "confirmed", "cancelled", "completed"}

Undefined == "undefined"

InventoryFields == {"totalUnits", "availableUnits", "minBookingDays", "maxBookingDays"}

Max(a, b) == IF a >= b THEN a ELSE b
Min(a, b) == IF a <= b THEN a ELSE b

\* Math.ceil(a / b) for b > 0
Ceil(a, b) == -((-a) \div b)

\* Service.unavailableDates of listings created without blocked dates
NoBlockedDates == [s \in Listings |-> <<>>]

\* The inventory sub-document a listing is created with (schema defaults)
DefaultInventory ==
    [totalUnits |-> 1, availableUnits |-> 1,
     minBookingDays |-> 1, maxBookingDays |-> DefaultMaxDays]

----------------------------------------------------------------------------
(* Database primitives *)

\* Service.findById: the document, or null
ServiceExists(serviceId) == serviceId \in Listings

\* Booking.findById
BookingExists(id) == id \in 1..Len(bookings)

\* Service.findByIdAndUpdate(id, {'inventory.<f>': v, ...}): $set of the named paths
SetFields(inv, upd) ==
    [f \in InventoryFields |-> IF f \in DOMAIN upd THEN upd[f] ELSE inv[f]]

----------------------------------------------------------------------------
(* utils/inventoryUtils.ts *)

\* The Booking.find filter of checkInventoryAvailability, on a ledger
conflictingBookings(ledger, serviceId, startDate, endDate) ==
    {i \in 1..Len(ledger) :
        /\ ledger[i].service = serviceId
        /\ ledger[i].date >= startDate
        /\ ledger[i].date <= endDate
        /\ ledger[i].status \in {"pending", "confirmed"}}

RECURSIVE SumUnits(_, _)
SumUnits(ledger, S) ==
    IF S = {} THEN 0
    ELSE LET i == CHOOSE x \in S : TRUE
         IN  ledger[i].units + SumUnits(ledger, S \ {i})

\* variant: every matching booking counts its own units
totalBookedUnitsByUnits(ledger, matches) == SumUnits(ledger, matches)

\* the reduce of checkInventoryAvailability: every matching booking counts 1
totalBookedUnits(ledger, matches) == Cardinality(matches)

\* checkInventoryAvailability on an inventory record and a ledger
checkInventoryAvailability(inv, ledger, serviceId, startDate, endDate, requestedUnits) ==
    IF requestedUnits > inv.totalUnits
    THEN [available      |-> FALSE,
          availableUnits |-> inv.availableUnits,
          totalUnits     |-> inv.totalUnits,
          conflictingBookings |-> Undefined]
    ELSE LET matches == conflictingBookings(ledger, serviceId, startDate, endDate)
             availableUnitsForRange ==
                 inv.totalUnits - totalBookedUnits(ledger, matches)
         IN  [available      |-> availableUnitsForRange >= requestedUnits,
              availableUnits |-> Max(0, availableUnitsForRange),
              totalUnits     |-> inv.totalUnits,
              conflictingBookings |-> matches]

\* updateInventoryAfterBooking, 'reserve': the guard of the throw
reserveAllowed(inv, units) == ~(inv.availableUnits < units)

\* variant: reserve always takes one unit
reserveUnitsOne(inv, units) == inv.availableUnits - 1

\* updateInventoryAfterBooking, 'reserve': newAvailableUnits
reserveUnits(inv, units) == inv.availableUnits - units

\* variant: the release is not capped at totalUnits
releaseUnitsUncapped(inv, units) == inv.availableUnits + units

\* updateInventoryAfterBooking, 'release': newAvailableUnits
releaseUnits(inv, units) == Min(inv.totalUnits, inv.availableUnits + units)

\* variant: Math.floor instead of Math.ceil
actualDaysFloor(startDate, endDate) == (endDate - startDate) \div TicksPerDay

\* validateBookingDuration: actualDays
actualDays(startDate, endDate) == Ceil(endDate - startDate, TicksPerDay)

\* validateBookingDuration (service.inventory is always present: the schema
\* declares it as a nested path with defaults)
validateBookingDuration(inv, startDate, endDate) ==
    LET days    == actualDays(startDate, endDate)
        minDays == inv.minBookingDays
        maxDays == inv.maxBookingDays
    IN  IF days < minDays
        THEN [valid |-> FALSE, message |-> "Minimum booking duration",
              actualDays |-> days, minDays |-> minDays, maxDays |-> maxDays]
        ELSE IF days > maxDays
        THEN [valid |-> FALSE, message |-> "Maximum booking duration",
              actualDays |-> days, minDays |-> minDays, maxDays |-> maxDays]
        ELSE [valid |-> TRUE, message |-> Undefined,
              actualDays |-> days, minDays |-> minDays, maxDays |-> maxDays]

----------------------------------------------------------------------------
(* utils/bookingUtils.ts *)

\* ObjectId.toString(): the hex string of the id
IdToString(id) == <<"id", id>>

\* Document.toString() of a populated reference: the inspection of the whole
\* document, never the hex string of an id
PopulatedToString(id) == <<"doc", id>>

\* variant: cancelled bookings may be reopened
validTransitionsReopen(status) ==
    CASE status = "pending"   -> {"confirmed", "cancelled"}
      [] status = "confirmed" -> {"completed", "cancelled"}
      [] status = "cancelled" -> {"pending"}
      [] status = "completed" -> {}

\* the validTransitions table of updateBookingStatus
validTransitions(status) ==
    CASE status = "pending"   -> {"confirmed", "cancelled"}
      [] status = "confirmed" -> {"completed", "cancelled"}
      [] status = "cancelled" -> {}
      [] status = "completed" -> {}

\* updateBookingStatus: the status code of the AppError it throws, 200 if none
updateBookingStatus(booking, newStatus, userId, userRole, clock) ==
    LET canUpdate ==
            \/ userRole = "admin"
            \/ IdToString(booking.user) = IdToString(userId)
            \/ (userRole = "provider"
                /\ IdToString(booking.service) = IdToString(userId))
    IN  IF ~canUpdate THEN 403
        ELSE IF newStatus \notin validTransitions(booking.status) THEN 400
        ELSE IF newStatus = "completed" /\ booking.date > clock THEN 400
        ELSE IF newStatus = "cancelled" /\ booking.status = "completed" THEN 400
        ELSE 200

----------------------------------------------------------------------------
(* controllers/bookingController.ts, one request at a time *)

Idle == [op |-> "none", code |-> 0]

\* The error handler's response to a thrown error: the status code (the
\* message is not modelled)
Error(op, code) == [op |-> op, code |-> code]

\* A success response whose payload no property reads
Ok(op, code) == [op |-> op, code |-> code]

\* The <<startDate, endDate>> pairs, in ticks, that createInventoryBooking is
\* driven with: a same-day stay, half a day (one day once rounded up), and a
\* later stay of a day and a half (two days once rounded up)
Stays == {<<1, 1>>, <<1, 2>>, <<3, 6>>}

NewBooking(userId, serviceId, startDate, endDate, units) ==
    [user |-> userId, service |-> serviceId, date |-> startDate,
     endDate |-> endDate, units |-> units, notes |-> Undefined,
     status |-> "pending"]

createInventoryBooking(caller, serviceId, startDate, endDate, units) ==
    LET fail(code, reason) ==
            resp' = Error("createInventoryBooking", code)
    IN
    /\ Len(bookings) < MaxBookings
    /\ UNCHANGED <<now, unavailableDates, reqs>>
    /\ IF ~ServiceExists(serviceId)
       THEN /\ fail(404, "Property not found")
            /\ UNCHANGED <<services, bookings>>
       ELSE
       LET inv == services[serviceId]
           durationValidation == validateBookingDuration(inv, startDate, endDate)
           availability ==
               checkInventoryAvailability(inv, bookings, serviceId,
                                          startDate, endDate, units)
           booking == NewBooking(caller.id, serviceId, startDate, endDate, units)
       IN  IF ~durationValidation.valid
           THEN /\ fail(400, durationValidation.message)
                /\ UNCHANGED <<services, bookings>>
           ELSE IF ~availability.available
           THEN /\ fail(400, "Insufficient inventory")
                /\ UNCHANGED <<services, bookings>>
           ELSE
           \* Booking.create, then updateInventoryAfterBooking(serviceId, 'reserve', units)
           /\ bookings' = Append(bookings, booking)
           /\ IF ~reserveAllowed(inv, units)
              THEN /\ fail(500, "Inventory update failed: Insufficient inventory")
                   /\ UNCHANGED services
              ELSE /\ services' = [services EXCEPT
                          ![serviceId].availableUnits = reserveUnits(inv, units)]
                   /\ resp' =
                          [op |-> "createInventoryBooking",
                           code |-> 201,
                           serviceId |-> serviceId,
                           startDate |-> startDate,
                           endDate |-> endDate,
                           id |-> Len(bookings) + 1,
                           reserved |-> units,
                           remaining |-> availability.availableUnits - units]

\* variant: the provider of the booked listing is compared with the caller
serviceIsCallerByProvider(booking, caller) ==
    IdToString(provider(booking.service)) = IdToString(caller.id)

\* cancelBooking, provider branch of canCancel:
\* booking.service.toString() === req.user._id.toString()
serviceIsCaller(booking, caller) ==
    IdToString(booking.service) = IdToString(caller.id)

\* variant: completed bookings are not recognised
isCompletedNever(booking) == FALSE

\* cancelBooking: the test booking.status === 'completed'
isCompleted(booking) == booking.status = "completed"

cancelBooking(caller, id) ==
    LET fail(code, reason) == resp' = Error("cancelBooking", code)
    IN
    /\ UNCHANGED <<now, unavailableDates, reqs>>
    /\ IF ~BookingExists(id)
       THEN /\ fail(404, "Booking not found")
            /\ UNCHANGED <<services, bookings>>
       ELSE
       LET booking == bookings[id]
           canCancel ==
               \/ caller.role = "admin"
               \/ IdToString(booking.user) = IdToString(caller.id)
               \/ (caller.role = "provider" /\ serviceIsCaller(booking, caller))
       IN  IF ~canCancel
           THEN /\ fail(403, "Not authorized to cancel this booking")
                /\ UNCHANGED <<services, bookings>>
           ELSE IF booking.status = "cancelled"
           THEN /\ fail(400, "Booking is already cancelled")
                /\ UNCHANGED <<services, bookings>>
           ELSE IF isCompleted(booking)
           THEN /\ fail(400, "Cannot cancel completed booking")
                /\ UNCHANGED <<services, bookings>>
           ELSE
           \* booking.units is never undefined (schema default 1)
           /\ IF booking.units > 0
              THEN services' = [services EXCEPT
                       ![booking.service].availableUnits =
                           releaseUnits(services[booking.service], booking.units)]
              ELSE UNCHANGED services
           /\ bookings' = [bookings EXCEPT ![id].status = "cancelled"]
           /\ resp' = Ok("cancelBooking", 200)

updateBooking(caller, id, status, notes) ==
    LET fail(code, reason) == resp' = Error("updateBooking", code)
    IN
    /\ UNCHANGED <<now, unavailableDates, reqs, services>>
    /\ IF ~BookingExists(id)
       THEN /\ fail(404, "Booking not found")
            /\ UNCHANGED bookings
       ELSE
       LET booking == bookings[id]
           transition ==
               IF status # Undefined /\ status # booking.status
               THEN updateBookingStatus(booking, status, caller.id, caller.role, now)
               ELSE 200
       IN  \* booking.user is populated here, so its toString() is not an id
           IF caller.role # "admin"
              /\ PopulatedToString(booking.user) # IdToString(caller.id)
           THEN /\ fail(403, "Not authorized to update this booking")
                /\ UNCHANGED bookings
           ELSE IF transition # 200
           THEN /\ fail(transition, "updateBookingStatus")
                /\ UNCHANGED bookings
           ELSE
           /\ bookings' = [bookings EXCEPT
                  ![id].notes  = IF notes # Undefined THEN notes ELSE @,
                  ![id].status = IF status # Undefined THEN status ELSE @]
           /\ resp' = Ok("updateBooking", 200)

----------------------------------------------------------------------------
(* validations/serviceValidation.ts and controllers/serviceController.ts *)

\* inventoryUpdateSchema: the four fields in range, then the custom rule
inventoryUpdateSchema(body) ==
    /\ body.totalUnits >= 1     /\ body.totalUnits <= UnitsLimit
    /\ body.availableUnits >= 0 /\ body.availableUnits <= UnitsLimit
    /\ body.minBookingDays >= 1 /\ body.minBookingDays <= DaysLimit
    /\ body.maxBookingDays >= 1 /\ body.maxBookingDays <= DaysLimit
    /\ ~(body.availableUnits > body.totalUnits)
    /\ ~(body.minBookingDays > body.maxBookingDays)

\* The bodies PUT /:id/inventory is driven with: every unit configuration,
\* with a booking-length policy in order or reversed
InventoryBodies ==
    {[totalUnits |-> t, availableUnits |-> a,
      minBookingDays |-> 1, maxBookingDays |-> DefaultMaxDays] :
        t \in 0..MaxUnits, a \in 0..MaxUnits}
    \cup {[totalUnits |-> 1, availableUnits |-> 1,
           minBookingDays |-> MaxDays, maxBookingDays |-> 1]}

updateInventory(caller, id, body) ==
    LET fail(code, reason) ==
            /\ resp' = Error("updateInventory", code)
            /\ UNCHANGED services
    IN
    /\ UNCHANGED <<now, unavailableDates, reqs, bookings>>
    /\ IF ~inventoryUpdateSchema(body)
       THEN fail(400, "Validation error")
       ELSE IF ~ServiceExists(id)
       THEN fail(404, "Property not found")
       ELSE IF caller.role # "admin"
               /\ IdToString(provider(id)) # IdToString(caller.id)
       THEN fail(403, "Not authorized to update this property inventory")
       ELSE IF body.availableUnits > body.totalUnits
       THEN fail(400, "Available units cannot exceed total units")
       ELSE IF body.minBookingDays > body.maxBookingDays
       THEN fail(400, "Minimum booking days cannot exceed maximum booking days")
       ELSE /\ services' = [services EXCEPT ![id] =
                   [totalUnits     |-> body.totalUnits,
                    availableUnits |-> body.availableUnits,
                    minBookingDays |-> body.minBookingDays,
                    maxBookingDays |-> body.maxBookingDays]]
            /\ resp' = Ok("updateInventory", 200)

\* variant: the adjustment without the clamp to 0 .. totalUnits
newAvailableUnitsUnclamped(inv, adjustment) == inv.availableUnits + adjustment

\* adjustInventory: newAvailableUnits
newAvailableUnits(inv, adjustment) ==
    Max(0, Min(inv.totalUnits, inv.availableUnits + adjustment))

adjustInventory(caller, id, adjustment) ==
    LET fail(code, reason) ==
            /\ resp' = Error("adjustInventory", code)
            /\ UNCHANGED services
    IN
    /\ UNCHANGED <<now, unavailableDates, reqs, bookings>>
    /\ IF caller.role # "admin"
       THEN fail(403, "Only administrators can adjust inventory")
       ELSE IF ~ServiceExists(id)
       THEN fail(404, "Property not found")
       ELSE /\ services' = [services EXCEPT ![id].availableUnits =
                                newAvailableUnits(services[id], adjustment)]
            /\ resp' = Ok("adjustInventory", 200)

\* POST /:id/inventory/availability (no authentication)
checkInventoryAvailabilityRequest(id, startDate, endDate, units) ==
    /\ UNCHANGED <<now, unavailableDates, reqs, bookings, services>>
    /\ IF ~ServiceExists(id)
       THEN resp' = Error("checkInventoryAvailability", 404)
       ELSE resp' =
               [op |-> "checkInventoryAvailability",
                code |-> 200,
                serviceId |-> id, startDate |-> startDate,
                endDate |-> endDate, units |-> units,
                availability |->
                    checkInventoryAvailability(services[id], bookings, id,
                                               startDate, endDate, units)]

\* variant: an item rewrites the whole inventory record, unnamed fields to defaults
updateDataWhole(inv, update) ==
    [f \in InventoryFields |->
        IF f \in DOMAIN update.set THEN update.set[f] ELSE DefaultInventory[f]]

\* bulkUpdateInventory: updateData applied by Service.findByIdAndUpdate,
\* which runs no validators
updateData(inv, update) == SetFields(inv, update.set)

\* bulkUpdateInventory: the loop over updates[k .. ], threading the collection
RECURSIVE bulkLoop(_, _, _, _, _)
bulkLoop(svcs, updates, k, updated, errors) ==
    IF k > Len(updates)
    THEN [services |-> svcs, updated |-> updated, errors |-> errors]
    ELSE LET update == updates[k]
         IN  IF update.serviceId = BadId
             THEN \* findById throws a CastError, caught by the loop body
                  bulkLoop(svcs, updates, k + 1, updated,
                           Append(errors, <<"Failed to update property", update.serviceId>>))
             ELSE IF ~ServiceExists(update.serviceId)
             THEN bulkLoop(svcs, updates, k + 1, updated,
                           Append(errors, <<"not found", update.serviceId>>))
             ELSE bulkLoop([svcs EXCEPT ![update.serviceId] = updateData(@, update)],
                           updates, k + 1, updated + 1, errors)

bulkUpdateInventory(caller, updates) ==
    LET fail(code, reason) ==
            /\ resp' = Error("bulkUpdateInventory", code)
            /\ UNCHANGED services
    IN
    /\ UNCHANGED <<now, unavailableDates, reqs, bookings>>
    /\ IF caller.role # "admin"
       THEN fail(403, "Only administrators can perform bulk inventory updates")
       ELSE IF Len(updates) = 0
       THEN fail(400, "Updates array is required and cannot be empty")
       ELSE LET result == bulkLoop(services, updates, 1, 0, <<>>)
            IN  /\ services' = result.services
                /\ resp' =
                       [op |-> "bulkUpdateInventory",
                        code |-> 200,
                        updates |-> updates,
                        success |-> (Len(result.errors) = 0),
                        updated |-> result.updated,
                        errors |-> result.errors]

\* The clock advances between requests
Tick ==
    /\ now < MaxNow
    /\ now' = now + 1
    /\ UNCHANGED <<services, bookings, resp, reqs, unavailableDates>>

----------------------------------------------------------------------------
(* Spec: bookings and their life cycle, requests executed one at a time *)

NoRequests == [r \in 1..NumReqs |-> [pc |-> "idle"]]

Init ==
    /\ services = [s \in Listings |-> DefaultInventory]
    /\ bookings = <<>>
    /\ now = 0
    /\ unavailableDates = NoBlockedDates
    /\ resp = Idle
    /\ reqs = NoRequests

CreateRequests ==
    {<<s, stay, u>> : s \in Listings, stay \in Stays, u \in 1..MaxUnits}
    \cup {<<NoListing, <<1, 2>>, 1>>}

CreateInventoryBooking ==
    \E r \in CreateRequests :
        createInventoryBooking(Customer, r[1], r[2][1], r[2][2], r[3])

CancelBooking ==
    \E caller \in Callers, id \in 1..MaxBookings + 1 : cancelBooking(caller, id)

UpdateBooking ==
    \E caller \in Callers, id \in 1..MaxBookings + 1,
       status \in BookingStatus \cup {Undefined} :
        updateBooking(caller, id, status, Undefined)

Next ==
    \/ CreateInventoryBooking
    \/ CancelBooking
    \/ UpdateBooking
    \/ Tick

Spec == Init /\ [][Next]_vars

----------------------------------------------------------------------------
(* SpecInventory: bookings and the administration of the inventory of     *)
(* listing 1, requests executed one at a time, before any stay begins      *)

InventoryCreateRequests ==
    {<<s, <<1, 2>>, u>> : s \in Listings, u \in 1..MaxUnits + 1}
    \cup {<<1, <<1, 1>>, 1>>}

UpdateInventoryRequests ==
    {<<Admin, 1, body>> : body \in InventoryBodies}
    \cup {<<c, 1, [DefaultInventory EXCEPT !.totalUnits = MaxUnits]>> :
             c \in {Customer, Provider}}
    \cup {<<Admin, NoListing, DefaultInventory>>}

AdjustInventoryRequests ==
    {<<Admin, 1, adj>> : adj \in {-(MaxUnits + 1), -1, 1, MaxUnits + 1}}
    \cup {<<Customer, 1, 1>>, <<Admin, NoListing, 1>>}

\* The batches the bulk update is driven with between bookings
CoreBatches ==
    { <<[serviceId |-> 1, set |-> ("availableUnits" :> (MaxUnits + 1))]>>,
      <<[serviceId |-> NoListing, set |-> ("totalUnits" :> 1)]>>,
      <<>> }

BulkUpdateRequests ==
    {<<Admin, b>> : b \in CoreBatches} \cup {<<Customer, <<>> >>}

InvCreateInventoryBooking ==
    \E r \in InventoryCreateRequests :
        createInventoryBooking(Customer, r[1], r[2][1], r[2][2], r[3])

InvCancelBooking ==
    \E id \in 1..MaxBookings : cancelBooking(Customer, id)

InvUpdateBooking ==
    \E id \in 1..MaxBookings, status \in BookingStatus :
        updateBooking(Admin, id, status, Undefined)

UpdateInventory ==
    \E r \in UpdateInventoryRequests : updateInventory(r[1], r[2], r[3])

AdjustInventory ==
    \E r \in AdjustInventoryRequests : adjustInventory(r[1], r[2], r[3])

BulkUpdateInventory ==
    \E r \in BulkUpdateRequests : bulkUpdateInventory(r[1], r[2])

NextInventory ==
    \/ InvCreateInventoryBooking
    \/ InvCancelBooking
    \/ InvUpdateBooking
    \/ UpdateInventory
    \/ AdjustInventory
    \/ BulkUpdateInventory

SpecInventory == Init /\ [][NextInventory]_vars

----------------------------------------------------------------------------
(* SpecBulk: batches of the bulk update on both listings *)

BulkItems ==
    { [serviceId |-> 1, set |-> ("availableUnits" :> (MaxUnits + 1))],
      [serviceId |-> 1, set |-> (("totalUnits" :> MaxUnits) @@ ("availableUnits" :> MaxUnits))],
      [serviceId |-> 2, set |-> (("minBookingDays" :> MaxDays) @@ ("maxBookingDays" :> 1))],
      [serviceId |-> 2, set |-> ("totalUnits" :> MaxUnits)],
      [serviceId |-> NoListing, set |-> ("totalUnits" :> 1)],
      [serviceId |-> BadId, set |-> ("totalUnits" :> 1)] }

BulkBatches == UNION {[1..n -> BulkItems] : n \in 0..MaxItems}

BulkUpdateBatch ==
    \E updates \in BulkBatches : bulkUpdateInventory(Admin, updates)

BulkUpdateRefused ==
    \E updates \in BulkBatches : bulkUpdateInventory(Customer, updates)

NextBulk ==
    \/ BulkUpdateBatch
    \/ BulkUpdateRefused

SpecBulk == Init /\ [][NextBulk]_vars

----------------------------------------------------------------------------
(* SpecAvail: the availability check on drawn inventories and ledgers *)

\* The bookings a drawn ledger is made of
LedgerBookings ==
    {[NewBooking(Customer.id, s, d, d + 1, MaxUnits) EXCEPT !.status = st] :
        s \in Listings, d \in {1, 3}, st \in BookingStatus}

Ledgers == UNION {[1..n -> LedgerBookings] : n \in 0..MaxBookings}

InitAvail ==
    /\ \E t \in 1..MaxUnits, a \in 0..MaxUnits :
          services = [s \in Listings |->
                        IF s = 1
                        THEN [DefaultInventory EXCEPT !.totalUnits = t,
                                                      !.availableUnits = a]
                        ELSE DefaultInventory]
    /\ bookings \in Ledgers
    /\ now = 0
    /\ unavailableDates = NoBlockedDates
    /\ resp = Idle
    /\ reqs = NoRequests

\* The date ranges the check is asked for
Ranges == {<<1, 2>>, <<2, 3>>, <<1, 4>>}

CheckInventoryAvailability ==
    \E id \in {1, NoListing}, range \in Ranges, units \in 1..MaxUnits + 1 :
        checkInventoryAvailabilityRequest(id, range[1], range[2], units)

NextAvail == CheckInventoryAvailability

SpecAvail == InitAvail /\ [][NextAvail]_vars

----------------------------------------------------------------------------
(* SpecDuration: the duration validator on drawn policies and date ranges *)

InitDuration ==
    /\ \E min \in 0..MaxDurDays, max \in 1..MaxDurDays :
          services = [s \in Listings |->
                        [DefaultInventory EXCEPT !.minBookingDays = min,
                                                 !.maxBookingDays = max]]
    /\ bookings = <<>>
    /\ now = 0
    /\ unavailableDates = NoBlockedDates
    /\ resp = Idle
    /\ reqs = NoRequests

ValidateBookingDuration ==
    \E startDate \in 0..1, endDate \in 0..(TicksPerDay * MaxDurDays + 1) :
        /\ resp' = [op |-> "validateBookingDuration", code |-> 0,
                    startDate |-> startDate, endDate |-> endDate,
                    result |-> validateBookingDuration(services[1], startDate, endDate)]
        /\ UNCHANGED <<services, bookings, now, unavailableDates, reqs>>

NextDuration == ValidateBookingDuration

SpecDuration == InitDuration /\ [][NextDuration]_vars

----------------------------------------------------------------------------
(* SpecConc: parallel createInventoryBooking requests, one database call   *)
(* of one request per step.  Every request is for one unit and the same    *)
(* dates; its listing is drawn when it starts.                             *)

Reqs == 1..NumReqs

ConcStay == <<1, 2>>
ConcUnits == 1

InitConc ==
    /\ services = [s \in Listings |-> DefaultInventory]
    /\ bookings = <<>>
    /\ now = 0
    /\ unavailableDates = NoBlockedDates
    /\ resp = Idle
    /\ reqs \in [Reqs -> {[pc |-> "findService", serviceId |-> s] : s \in Listings}]

Goto(r, pc, fields) ==
    reqs' = [reqs EXCEPT ![r] = fields @@ [pc |-> pc] @@ [serviceId |-> @.serviceId] @@ @]

Finish(r, code, reason) ==
    reqs' = [reqs EXCEPT ![r] = [pc |-> "done", serviceId |-> @.serviceId,
                                 code |-> code, reason |-> reason]]

\* Service.findById of the handler, then validateBookingDuration on the result
ConcFindService(r) ==
    /\ reqs[r].pc = "findService"
    /\ LET service == services[reqs[r].serviceId]
           durationValidation ==
               validateBookingDuration(service, ConcStay[1], ConcStay[2])
       IN  IF ~durationValidation.valid
           THEN Finish(r, 400, durationValidation.message)
           ELSE Goto(r, "availService", <<>>)
    /\ UNCHANGED <<services, bookings, now, unavailableDates, resp>>

\* checkInventoryAvailability: Service.findById and the test on totalUnits
ConcAvailService(r) ==
    /\ reqs[r].pc = "availService"
    /\ LET service == services[reqs[r].serviceId]
       IN  IF ConcUnits > service.totalUnits
           THEN Finish(r, 400, "Insufficient inventory")
           ELSE Goto(r, "availFind", [service |-> service])
    /\ UNCHANGED <<services, bookings, now, unavailableDates, resp>>

\* checkInventoryAvailability: Booking.find and the result
ConcAvailFind(r) ==
    /\ reqs[r].pc = "availFind"
    /\ LET availability ==
               checkInventoryAvailability(reqs[r].service, bookings,
                   reqs[r].serviceId, ConcStay[1], ConcStay[2], ConcUnits)
       IN  IF ~availability.available
           THEN Finish(r, 400, "Insufficient inventory")
           ELSE Goto(r, "create", [availableUnits |-> availability.availableUnits])
    /\ UNCHANGED <<services, bookings, now, unavailableDates, resp>>

\* Booking.create
ConcCreate(r) ==
    /\ reqs[r].pc = "create"
    /\ bookings' = Append(bookings,
           NewBooking(Customer.id, reqs[r].serviceId, ConcStay[1], ConcStay[2], ConcUnits))
    /\ Goto(r, "reserveRead", [id |-> Len(bookings) + 1])
    /\ UNCHANGED <<services, now, unavailableDates, resp>>

\* updateInventoryAfterBooking: Service.findById and newAvailableUnits
ConcReserveRead(r) ==
    /\ reqs[r].pc = "reserveRead"
    /\ LET service == services[reqs[r].serviceId]
       IN  IF ~reserveAllowed(service, ConcUnits)
           THEN Finish(r, 500, "Inventory update failed: Insufficient inventory")
           ELSE Goto(r, "reserveWrite",
                     [newAvailableUnits |-> reserveUnits(service, ConcUnits)])
    /\ UNCHANGED <<services, bookings, now, unavailableDates, resp>>

\* variant: the write decrements the stored counter ($inc)
writtenAvailableUnitsInc(stored, computed) == stored - ConcUnits

\* Service.findByIdAndUpdate(serviceId, {'inventory.availableUnits':
\* newAvailableUnits}): the value computed from the earlier read replaces the
\* stored one
writtenAvailableUnits(stored, computed) == computed

\* updateInventoryAfterBooking: Service.findByIdAndUpdate, then the response
ConcReserveWrite(r) ==
    /\ reqs[r].pc = "reserveWrite"
    /\ services' = [services EXCEPT
           ![reqs[r].serviceId].availableUnits =
               writtenAvailableUnits(@, reqs[r].newAvailableUnits)]
    /\ reqs' = [reqs EXCEPT ![r] =
           [pc |-> "done", serviceId |-> @.serviceId, code |-> 201,
            reason |-> Undefined, id |-> @.id,
            remaining |-> @.availableUnits - ConcUnits]]
    /\ UNCHANGED <<bookings, now, unavailableDates, resp>>

ConcFindServiceStep  == \E r \in Reqs : ConcFindService(r)
ConcAvailServiceStep == \E r \in Reqs : ConcAvailService(r)
ConcAvailFindStep    == \E r \in Reqs : ConcAvailFind(r)
ConcCreateStep       == \E r \in Reqs : ConcCreate(r)
ConcReserveReadStep  == \E r \in Reqs : ConcReserveRead(r)
ConcReserveWriteStep == \E r \in Reqs : ConcReserveWrite(r)

NextConc ==
    \/ ConcFindServiceStep
    \/ ConcAvailServiceStep
    \/ ConcAvailFindStep
    \/ ConcCreateStep
    \/ ConcReserveReadStep
    \/ ConcReserveWriteStep

SpecConc == InitConc /\ [][NextConc]_vars

----------------------------------------------------------------------------
(* Properties *)

InRange(inv) == 0 <= inv.availableUnits /\ inv.availableUnits <= inv.totalUnits

SequentialOps ==
    {"createInventoryBooking", "cancelBooking", "updateBooking",
     "adjustInventory", "updateInventory"}

\* C1 (SpecInventory): a request of createInventoryBooking, cancelBooking,
\* updateBooking, adjustInventory or updateInventory, handled on its own,
\* takes every listing with 0 <= availableUnits <= totalUnits to a listing
\* with 0 <= availableUnits <= totalUnits.
C1_InventoryInRange ==
    [][(resp'.op \in SequentialOps)
       => \A s \in Listings : InRange(services[s]) => InRange(services'[s])]_vars

\* An adjustment was applied to listing 1 while it had bookings, and left
\* it full.
C1_Witness ==
    /\ resp.op = "adjustInventory" /\ resp.code = 200
    /\ Len(bookings) > 0
    /\ services[1].totalUnits = MaxUnits
    /\ services[1].availableUnits = MaxUnits

\* The transition table of the specification, written out
StatusTable ==
    {<<"pending", "confirmed">>, <<"pending", "cancelled">>,
     <<"confirmed", "completed">>, <<"confirmed", "cancelled">>}

\* C2 (Spec): the status of a booking only ever changes along pending ->
\* confirmed, pending -> cancelled, confirmed -> completed, confirmed ->
\* cancelled; no updateBooking request that asks for any other change of
\* status is accepted (a step answered 200 is the handling of no such
\* request), and an updateBooking request answered with an error leaves the
\* ledger as it was.
C2_StatusTransitions ==
    [][/\ \A i \in 1..Len(bookings) :
             bookings'[i].status # bookings[i].status
             => <<bookings[i].status, bookings'[i].status>> \in StatusTable
       /\ (resp'.op = "updateBooking" /\ resp'.code = 200)
          => \A caller \in Callers, id \in 1..Len(bookings), status \in BookingStatus :
                (/\ status # bookings[id].status
                 /\ <<bookings[id].status, status>> \notin StatusTable)
                => ~updateBooking(caller, id, status, Undefined)
       /\ (resp'.op = "updateBooking" /\ resp'.code # 200) => bookings' = bookings]_vars

\* The only booking is cancelled, and the last request, an update of its
\* status, was refused as an invalid transition.
C2_Witness ==
    /\ resp.op = "updateBooking" /\ resp.code = 400
    /\ Len(bookings) = 1
    /\ bookings[1].status = "cancelled"

Succeeded(r) == reqs[r].pc = "done" /\ reqs[r].code = 201

InsufficientInventory(r) ==
    /\ reqs[r].pc = "done"
    /\ reqs[r].code \in {400, 500}
    /\ reqs[r].reason \in {"Insufficient inventory",
                           "Inventory update failed: Insufficient inventory"}

\* C3 (SpecConc): when all the parallel requests are for listing 1
\* (totalUnits = 1, availableUnits = 1) and all have been answered, exactly
\* one of them succeeded and every other one failed for insufficient
\* inventory.
C3_ExactlyOneSucceeds ==
    (\A r \in Reqs : reqs[r].pc = "done" /\ reqs[r].serviceId = 1)
    => /\ Cardinality({r \in Reqs : Succeeded(r)}) = 1
       /\ \A r \in Reqs : Succeeded(r) \/ InsufficientInventory(r)

\* C4 (SpecInventory): when the booking that the last request created with
\* createInventoryBooking is cancelled by the next request, availableUnits
\* of its listing is again what it was before the booking: the value the
\* creation left plus the units it reserved.
C4_RoundTrip ==
    [][(/\ resp.op = "createInventoryBooking" /\ resp.code = 201
        /\ resp'.op = "cancelBooking" /\ resp'.code = 200
        /\ bookings[resp.id].status = "pending"
        /\ bookings'[resp.id].status = "cancelled")
       => services'[resp.serviceId].availableUnits
              = services[resp.serviceId].availableUnits + resp.reserved]_vars

\* C5 (Spec): whenever the status of a booking becomes cancelled, its units
\* are given back to availableUnits of its listing (up to totalUnits).
C5_CancelReleases ==
    [][\A i \in 1..Len(bookings) :
          (bookings[i].status # "cancelled" /\ bookings'[i].status = "cancelled")
          => LET inv == services[bookings[i].service]
             IN  services'[bookings[i].service].availableUnits
                     = Min(inv.totalUnits, inv.availableUnits + bookings[i].units)]_vars

ValidConfiguration(inv) ==
    /\ inv.availableUnits <= inv.totalUnits
    /\ inv.minBookingDays <= inv.maxBookingDays

\* C6 (SpecInventory): an updateInventory or bulkUpdateInventory request
\* changes a listing only to an inventory with availableUnits <= totalUnits
\* and minBookingDays <= maxBookingDays; a write with any other result
\* leaves the listing as it was.
C6_InvalidWriteRejected ==
    [][(resp'.op \in {"updateInventory", "bulkUpdateInventory"})
       => \A s \in Listings :
             services'[s] # services[s] => ValidConfiguration(services'[s])]_vars

\* The items of a batch that name a listing of the collection
ExistingItems(updates) ==
    {k \in 1..Len(updates) : updates[k].serviceId \in Listings}

\* The items of a batch that write field f of listing s
ItemsNaming(updates, s, f) ==
    {k \in ExistingItems(updates) :
        updates[k].serviceId = s /\ f \in DOMAIN updates[k].set}

LastOf(S) == CHOOSE k \in S : \A j \in S : j <= k

\* C7 (SpecBulk): an accepted bulkUpdateInventory request reports one error
\* for every item whose listing does not exist, in the order of the items,
\* and counts every other item as updated, so that updated plus the number
\* of errors is the number of items; every field of every listing has the
\* value of the last item that names it, whatever happened to the other
\* items, and keeps its value when no item names it; the ledger is
\* untouched.
C7_BulkIndependent ==
    [][(resp'.op = "bulkUpdateInventory" /\ resp'.code = 200)
       => LET updates == resp'.updates
              missing == SelectSeq(updates, LAMBDA u : u.serviceId \notin Listings)
          IN  /\ resp'.updated = Cardinality(ExistingItems(updates))
              /\ Len(resp'.errors) = Len(missing)
              /\ \A j \in 1..Len(missing) : resp'.errors[j][2] = missing[j].serviceId
              /\ resp'.updated + Len(resp'.errors) = Len(updates)
              /\ resp'.success = (Len(missing) = 0)
              /\ \A s \in Listings, f \in InventoryFields :
                    LET naming == ItemsNaming(updates, s, f)
                    IN  services'[s][f] =
                            IF naming = {} THEN services[s][f]
                            ELSE updates[LastOf(naming)].set[f]
              /\ bookings' = bookings]_vars

\* A batch of two items: the first names a listing that does not exist, the
\* second raised totalUnits of listing 2, whose booking-length policy had
\* been changed before and is still in place.
C7_Witness ==
    /\ resp.op = "bulkUpdateInventory" /\ resp.code = 200
    /\ Len(resp.updates) = 2
    /\ resp.updates[1].serviceId = NoListing
    /\ resp.updates[2] = [serviceId |-> 2, set |-> ("totalUnits" :> MaxUnits)]
    /\ resp.updated = 1 /\ Len(resp.errors) = 1
    /\ services[2].totalUnits = MaxUnits
    /\ services[2].minBookingDays = MaxDays

\* The bookings of the ledger that hold units of a listing in a date range
committedUnits(serviceId, startDate, endDate) ==
    Cardinality({i \in 1..Len(bookings) :
        /\ bookings[i].service = serviceId
        /\ bookings[i].status \in {"pending", "confirmed"}
        /\ startDate <= bookings[i].date /\ bookings[i].date <= endDate})

\* C8 as amended (SpecAvail): the availability check answers available
\* exactly when requestedUnits <= totalUnits and totalUnits - committedUnits
\* >= requestedUnits, committedUnits being the number of pending or
\* confirmed bookings of the listing dated within the range; the
\* availableUnits it reports is max(0, totalUnits - committedUnits) when
\* requestedUnits <= totalUnits, and the stored availableUnits of the
\* listing when requestedUnits > totalUnits.
C8_AvailabilityAmended ==
    (resp.op = "checkInventoryAvailability" /\ resp.code = 200)
    => LET inv == services[resp.serviceId]
           committed == committedUnits(resp.serviceId, resp.startDate, resp.endDate)
       IN  /\ resp.availability.available
                  = (resp.units <= inv.totalUnits
                     /\ inv.totalUnits - committed >= resp.units)
           /\ resp.availability.availableUnits
                  = IF resp.units <= inv.totalUnits
                    THEN Max(0, inv.totalUnits - committed)
                    ELSE inv.availableUnits

\* C8 as stated: the same, with the reported availableUnits equal to
\* max(0, totalUnits - committedUnits) for every request.
C8_AvailabilityAsStated ==
    (resp.op = "checkInventoryAvailability" /\ resp.code = 200)
    => LET inv == services[resp.serviceId]
           committed == committedUnits(resp.serviceId, resp.startDate, resp.endDate)
       IN  /\ resp.availability.available
                  = (resp.units <= inv.totalUnits
                     /\ inv.totalUnits - committed >= resp.units)
           /\ resp.availability.availableUnits = Max(0, inv.totalUnits - committed)

\* A check for more units than the listing has, answered with the stored
\* availableUnits although the range is more, or less, committed than that;
\* the ledger holds a cancelled and a pending booking of the listing in the
\* range.
C8_Witness ==
    /\ resp.op = "checkInventoryAvailability" /\ resp.code = 200
    /\ resp.units > services[resp.serviceId].totalUnits
    /\ ~resp.availability.available
    /\ resp.availability.availableUnits = services[resp.serviceId].availableUnits
    /\ resp.availability.availableUnits
           # Max(0, services[resp.serviceId].totalUnits
                    - committedUnits(resp.serviceId, resp.startDate, resp.endDate))
    /\ \E i, j \in 1..Len(bookings) :
          /\ bookings[i].service = resp.serviceId /\ bookings[j].service = resp.serviceId
          /\ bookings[i].status = "cancelled" /\ bookings[j].status = "pending"
          /\ bookings[i].date = resp.startDate /\ bookings[j].date = resp.startDate

\* The least number of whole days that cover endDate - startDate
DaysCovering(startDate, endDate) ==
    CHOOSE d \in -1..(MaxDurDays + 2) :
        /\ d * TicksPerDay >= endDate - startDate
        /\ (d - 1) * TicksPerDay < endDate - startDate

C10_CreateEffect ==
    [][(resp'.op = "createInventoryBooking" /\ resp'.code = 201)
       => /\ Len(bookings') = Len(bookings) + 1
          /\ SubSeq(bookings', 1, Len(bookings)) = bookings
          /\ resp'.id = Len(bookings')
          /\ bookings'[resp'.id] =
                 [user |-> Customer.id, service |-> resp'.serviceId,
                  date |-> resp'.startDate, endDate |-> resp'.endDate,
                  units |-> resp'.reserved, notes |-> Undefined,
                  status |-> "pending"]
          /\ services' = [services EXCEPT
                 ![resp'.serviceId].availableUnits = @ - resp'.reserved]]_vars

\* A booking for MaxUnits units was created next to an earlier booking and
\* took the last units of its listing.
C10_Witness ==
    /\ resp.op = "createInventoryBooking" /\ resp.code = 201
    /\ resp.reserved = MaxUnits
    /\ Len(bookings) = 2 /\ resp.id = 2
    /\ services[resp.serviceId].availableUnits = 0

\* C11 (SpecInventory): the remaining-unit count in the answer of a
\* successful createInventoryBooking is the availableUnits stored for the
\* listing once the request has reserved its units.
C11_RemainingIsStored ==
    (resp.op = "createInventoryBooking" /\ resp.code = 201)
    => resp.remaining = services[resp.serviceId].availableUnits

\* C12 (Spec): a cancelBooking request for a booking that is cancelled or
\* completed is answered with an error, and leaves the ledger and every
\* listing as they were.
C12_CancelTerminalFails ==
    [][(resp'.op = "cancelBooking")
       => \A caller \in Callers, id \in 1..Len(bookings) :
             (/\ bookings[id].status \in {"cancelled", "completed"}
              /\ cancelBooking(caller, id))
             => /\ resp'.code \in {400, 403}
                /\ bookings' = bookings
                /\ services' = services]_vars

\* The only booking is completed and holds the unit of its listing; the last
\* request, its cancellation, was refused.
C12_Witness ==
    /\ resp.op = "cancelBooking" /\ resp.code = 400
    /\ Len(bookings) = 1
    /\ bookings[1].status = "completed"
    /\ services[bookings[1].service].availableUnits = 0

----------------------------------------------------------------------------
(* SpecNotes: the life cycle of the bookings of listing 1, with updates of *)
(* the notes of a booking                                                  *)

\* The notes an update request carries
Notes == {Undefined, "late arrival"}

NotesCreateInventoryBooking ==
    createInventoryBooking(Customer, 1, 1, 2, 1)

NotesCancelBooking ==
    \E caller \in {Customer, Admin}, id \in 1..MaxBookings :
        cancelBooking(caller, id)

NotesUpdateBooking ==
    \E caller \in {Customer, Admin}, id \in 1..MaxBookings,
       status \in BookingStatus \cup {Undefined}, notes \in Notes :
        updateBooking(caller, id, status, notes)

NextNotes ==
    \/ NotesCreateInventoryBooking
    \/ NotesCancelBooking
    \/ NotesUpdateBooking
    \/ Tick

SpecNotes == Init /\ [][NextNotes]_vars

\* C13 (SpecNotes): no request changes any stored field of a booking whose
\* status is completed or cancelled.
C13_TerminalImmutable ==
    [][\A i \in 1..Len(bookings) :
          bookings[i].status \in {"completed", "cancelled"}
          => bookings'[i] = bookings[i]]_vars

----------------------------------------------------------------------------
(* SpecCalendar: the manual blocking and unblocking of dates of a listing, *)
(* requests executed one at a time                                         *)

MaxCalDay == 1      \* calendar dates range over the days 0 .. MaxCalDay
MaxDates  == 2      \* length of the dates array of a request

\* The instants, in ticks, of the days 0 .. MaxCalDay
CalInstants == 0..(TicksPerDay * (MaxCalDay + 1) - 1)

\* date.setHours(0, 0, 0, 0): the start of the day of an instant (the server
\* runs in UTC)
startOfDay(t) == (t \div TicksPerDay) * TicksPerDay

\* dates.map(dateStr => ...) of blockDates and unblockDates
dateObjects(dates) == [i \in 1..Len(dates) |-> startOfDay(dates[i])]

Range(seq) == {seq[i] : i \in 1..Len(seq)}

blockDates(caller, id, dates) ==
    LET fail(code, reason) ==
            /\ resp' = Error("blockDates", code)
            /\ UNCHANGED unavailableDates
    IN
    /\ UNCHANGED <<services, bookings, now, reqs>>
    /\ IF Len(dates) = 0
       THEN fail(400, "Dates array is required and cannot be empty")
       ELSE IF ~ServiceExists(id)
       THEN fail(404, "Service not found")
       ELSE IF caller.role # "admin"
               /\ IdToString(provider(id)) # IdToString(caller.id)
       THEN fail(403, "Access denied. Admin or service owner required.")
       ELSE
       LET existingDates == Range(unavailableDates[id])
           newDates == SelectSeq(dateObjects(dates), LAMBDA d : d \notin existingDates)
       IN  IF Len(newDates) = 0
           THEN fail(400, "All specified dates are already blocked")
           ELSE /\ unavailableDates' =
                       [unavailableDates EXCEPT ![id] = @ \o newDates]
                /\ resp' = [op |-> "blockDates", code |-> 200,
                            serviceId |-> id, dates |-> dates,
                            blockedDates |-> newDates,
                            totalUnavailableDates |-> Len(unavailableDates'[id])]

\* variant: unblocking clears the whole array
keptDatesNone(stored, removed) == <<>>

\* unblockDates: the filter on service.unavailableDates
keptDates(stored, removed) == SelectSeq(stored, LAMBDA d : d \notin removed)

unblockDates(caller, id, dates) ==
    LET fail(code, reason) ==
            /\ resp' = Error("unblockDates", code)
            /\ UNCHANGED unavailableDates
    IN
    /\ UNCHANGED <<services, bookings, now, reqs>>
    /\ IF Len(dates) = 0
       THEN fail(400, "Dates array is required and cannot be empty")
       ELSE IF ~ServiceExists(id)
       THEN fail(404, "Service not found")
       ELSE IF caller.role # "admin"
               /\ IdToString(provider(id)) # IdToString(caller.id)
       THEN fail(403, "Access denied. Admin or service owner required.")
       ELSE
       LET removed  == Range(dateObjects(dates))
           kept     == keptDates(unavailableDates[id], removed)
           removedCount == Len(unavailableDates[id]) - Len(kept)
       IN  IF removedCount = 0
           THEN fail(400, "None of the specified dates were blocked")
           ELSE /\ unavailableDates' = [unavailableDates EXCEPT ![id] = kept]
                /\ resp' = [op |-> "unblockDates", code |-> 200,
                            serviceId |-> id, dates |-> dates,
                            unblockedCount |-> removedCount,
                            totalUnavailableDates |-> Len(kept)]

\* updateService with only unavailableDates in the body: the array is stored
\* as given
updateService(caller, id, dates) ==
    LET fail(code, reason) ==
            /\ resp' = Error("updateService", code)
            /\ UNCHANGED unavailableDates
    IN
    /\ UNCHANGED <<services, bookings, now, reqs>>
    /\ IF ~ServiceExists(id)
       THEN fail(404, "Property not found")
       ELSE IF IdToString(provider(id)) # IdToString(caller.id)
               /\ caller.role # "admin"
       THEN fail(403, "Not authorized to update this property")
       ELSE /\ unavailableDates' = [unavailableDates EXCEPT ![id] = dates]
            /\ resp' = Ok("updateService", 200)

\* The dates arrays of the requests: up to MaxDates instants, in
\* chronological order, the same day or instant possibly more than once
DateLists ==
    {dates \in UNION {[1..n -> CalInstants] : n \in 0..MaxDates} :
        \A i \in 1..(Len(dates) - 1) : dates[i] <= dates[i + 1]}

BlockDatesRequests ==
    {<<Provider, 1, dates>> : dates \in DateLists}
    \cup {<<Customer, 1, <<0>> >>, <<Admin, NoListing, <<0>> >>}

UnblockDatesRequests ==
    {<<Admin, 1, dates>> : dates \in DateLists}
    \cup {<<Customer, 1, <<0>> >>, <<Provider, NoListing, <<0>> >>}

UpdateServiceRequests ==
    {<<Provider, 1, <<1>> >>, <<Customer, 1, <<>> >>, <<Admin, NoListing, <<>> >>}

BlockDates ==
    \E r \in BlockDatesRequests : blockDates(r[1], r[2], r[3])

UnblockDates ==
    \E r \in UnblockDatesRequests : unblockDates(r[1], r[2], r[3])

UpdateService ==
    \E r \in UpdateServiceRequests : updateService(r[1], r[2], r[3])

NextCalendar ==
    \/ BlockDates
    \/ UnblockDates
    \/ UpdateService

SpecCalendar == Init /\ [][NextCalendar]_vars

\* The Unavailable-Dates array of the listing before the blockDates request
\* that resp answers: the stored array without the dates the request
\* appended
BeforeBlock ==
    SubSeq(unavailableDates[resp.serviceId], 1,
           Len(unavailableDates[resp.serviceId]) - Len(resp.blockedDates))

\* C14 as amended (SpecCalendar): when blockDates(D) succeeds and none of the
\* days of D was blocked before, an unblockDates(D) that follows it succeeds
\* and leaves the Unavailable-Dates array of the listing exactly as it was
\* before the block; in every case it leaves the earlier dates that are on
\* no day of D.
C14_RoundTripAmended ==
    [][(/\ resp.op = "blockDates" /\ resp.code = 200
        /\ unblockDates(Admin, resp.serviceId, resp.dates))
       => /\ resp'.code = 200
          /\ Range(unavailableDates'[resp.serviceId])
                 = Range(BeforeBlock) \ Range(dateObjects(resp.dates))
          /\ Range(BeforeBlock) \cap Range(dateObjects(resp.dates)) = {}
             => unavailableDates'[resp.serviceId] = BeforeBlock]_vars

\* C14 as stated: when blockDates(D) succeeds, an unblockDates(D) that
\* follows it leaves the Unavailable-Dates set of the listing equal to the
\* set before the block.
C14_RoundTripAsStated ==
    [][(/\ resp.op = "blockDates" /\ resp.code = 200
        /\ unblockDates(Admin, resp.serviceId, resp.dates))
       => Range(unavailableDates'[resp.serviceId]) = Range(BeforeBlock)]_vars

\* Two dates were unblocked by a request naming two days, and a date of
\* another day, blocked before them, is still in place.
C14_Witness ==
    /\ resp.op = "unblockDates" /\ resp.code = 200
    /\ Len(resp.dates) = 2 /\ resp.unblockedCount = 2
    /\ Cardinality(Range(dateObjects(resp.dates))) = 1
    /\ Len(unavailableDates[resp.serviceId]) = 1
    /\ unavailableDates[resp.serviceId][1] \notin Range(dateObjects(resp.dates))

----------------------------------------------------------------------------
(* SpecDateCheck: the date-range availability check on drawn arrays of     *)
(* unavailable dates                                                       *)

\* toISOString().split('T')[0]: the calendar day of an instant
dateStr(t) == t \div TicksPerDay

\* variant: the walk includes the instant checkOut
beforeCheckOutOrAt(currentDate, checkOut) == currentDate <= checkOut

\* checkAvailability: the loop condition currentDate < checkOut
beforeCheckOut(currentDate, checkOut) == currentDate < checkOut

\* checkAvailability: the loop from currentDate on, collecting conflictingDates
RECURSIVE walkDates(_, _, _)
walkDates(currentDate, checkOut, stored) ==
    IF ~beforeCheckOut(currentDate, checkOut) THEN <<>>
    ELSE LET isUnavailable ==
                 \E i \in 1..Len(stored) : dateStr(stored[i]) = dateStr(currentDate)
         IN  (IF isUnavailable THEN <<dateStr(currentDate)>> ELSE <<>>)
             \o walkDates(currentDate + TicksPerDay, checkOut, stored)

checkAvailability(id, checkIn, checkOut) ==
    /\ UNCHANGED <<services, bookings, now, reqs, unavailableDates>>
    /\ IF ~ServiceExists(id)
       THEN resp' = Error("checkAvailability", 404)
       ELSE IF checkIn >= checkOut
       THEN resp' = [op |-> "checkAvailability", code |-> 400,
                     serviceId |-> id, checkIn |-> checkIn, checkOut |-> checkOut]
       ELSE LET conflictingDates == walkDates(checkIn, checkOut, unavailableDates[id])
            IN  resp' = [op |-> "checkAvailability", code |-> 200,
                         serviceId |-> id, checkIn |-> checkIn, checkOut |-> checkOut,
                         isAvailable |-> (Len(conflictingDates) = 0),
                         conflictingDates |-> conflictingDates]

\* Any array of dates can be stored for a listing (updateService)
InitDateCheck ==
    /\ services = [s \in Listings |-> DefaultInventory]
    /\ bookings = <<>>
    /\ now = 0
    /\ resp = Idle
    /\ reqs = NoRequests
    /\ \E stored \in UNION {[1..n -> CalInstants] : n \in 0..MaxDates} :
          unavailableDates = [NoBlockedDates EXCEPT ![1] = stored]

CheckAvailability ==
    \E id \in {1, NoListing}, checkIn \in CalInstants,
       checkOut \in 0..(TicksPerDay * (MaxCalDay + 1)) :
        checkAvailability(id, checkIn, checkOut)

NextDateCheck == CheckAvailability

SpecDateCheck == InitDateCheck /\ [][NextDateCheck]_vars

\* The days on which the listing has an unavailable date
BlockedDays(id) == {unavailableDates[id][i] \div TicksPerDay : i \in 1..Len(unavailableDates[id])}

\* The days of the instants checkIn, checkIn + 1 day, ... before checkOut
VisitedDays(checkIn, checkOut) ==
    {(checkIn + k * TicksPerDay) \div TicksPerDay :
        k \in {j \in 0..(MaxCalDay + 1) : checkIn + j * TicksPerDay < checkOut}}

AtStartOfDay(t) == t % TicksPerDay = 0

\* C15 as amended (SpecDateCheck): the check fails with an invalid-range
\* error when checkIn >= checkOut; otherwise conflictingDates is exactly the
\* blocked days among the days of checkIn, checkIn + 1 day, ... before
\* checkOut, and isAvailable holds exactly when there is none; when checkIn
\* and checkOut are calendar dates (start of a day), these are the blocked
\* days d with checkIn <= d < checkOut, the checkOut day excluded.
C15_RangeCheckAmended ==
    (resp.op = "checkAvailability" /\ resp.code # 404)
    => /\ (resp.code = 400) = (resp.checkIn >= resp.checkOut)
       /\ resp.code = 200 =>
             LET conflicts == Range(resp.conflictingDates)
             IN  /\ conflicts = VisitedDays(resp.checkIn, resp.checkOut)
                                    \cap BlockedDays(resp.serviceId)
                 /\ Len(resp.conflictingDates) = Cardinality(conflicts)
                 /\ resp.isAvailable = (conflicts = {})
                 /\ (AtStartOfDay(resp.checkIn) /\ AtStartOfDay(resp.checkOut))
                    => conflicts =
                         {d \in BlockedDays(resp.serviceId) :
                             dateStr(resp.checkIn) <= d /\ d < dateStr(resp.checkOut)}

\* C15 as stated: the check fails with an invalid-range error when checkIn
\* >= checkOut; otherwise conflictingDates is exactly the set of blocked days
\* d with checkIn <= d < checkOut, and isAvailable holds exactly when that
\* set is empty.
C15_RangeCheckAsStated ==
    (resp.op = "checkAvailability" /\ resp.code # 404)
    => /\ (resp.code = 400) = (resp.checkIn >= resp.checkOut)
       /\ resp.code = 200 =>
             LET claimed == {d \in BlockedDays(resp.serviceId) :
                                dateStr(resp.checkIn) <= d /\ d < dateStr(resp.checkOut)}
             IN  /\ Range(resp.conflictingDates) = claimed
                 /\ resp.isAvailable = (claimed = {})

\* A range from the start of day 0 into day 1, with only day 1 blocked:
\* reported unavailable, the conflict being the checkOut day.
C15_Witness ==
    /\ resp.op = "checkAvailability" /\ resp.code = 200
    /\ resp.checkIn = 0 /\ dateStr(resp.checkOut) = 1 /\ ~AtStartOfDay(resp.checkOut)
    /\ BlockedDays(resp.serviceId) = {1}
    /\ ~resp.isAvailable
    /\ resp.conflictingDates = <<1>>


----------------------------------------------------------------------------
(* SpecLegacy: the legacy single-date endpoint POST /api/bookings, requests
   executed one at a time.  In this specification an instant counts quarter
   hours, so that the 30 minute window of checkAvailability is two units. *)

MinutesPerInstant == 15
InstantsPerDay    == 96     \* 24 hours of quarter hours
DefaultDuration   == 60     \* duration: number = 60, in minutes

\* variant: the window excludes its two ends
inWindowOpen(date, startTime, endTime) == startTime < date /\ date < endTime

\* the filter date: { $gte: startTime, $lte: endTime }
inWindow(date, startTime, endTime) == startTime <= date /\ date <= endTime

isActive(booking) == booking.status \in {"pending", "confirmed"}

\* checkAvailability(serviceId, date, duration) of bookingUtils: no active
\* booking of the service has its date in [date - duration/2, date + duration/2].
\* body.serviceId may be absent: the filter then matches no booking.
slotAvailable(ledger, body, duration) ==
    LET half      == (duration \div 2) \div MinutesPerInstant
        startTime == body.date - half
        endTime   == body.date + half
    IN  ~\E i \in 1..Len(ledger) :
            /\ "serviceId" \in DOMAIN body
            /\ ledger[i].service = body.serviceId
            /\ inWindow(ledger[i].date, startTime, endTime)
            /\ isActive(ledger[i])

\* validateBookingRequest: the message of the AppError it throws, "" if none
validateBookingRequest(ledger, body, userId, clock) ==
    LET startOfDayL == (body.date \div InstantsPerDay) * InstantsPerDay
        endOfDayL   == startOfDayL + InstantsPerDay - 1
        existingBooking ==
            \E i \in 1..Len(ledger) :
                /\ "serviceId" \in DOMAIN body
                /\ ledger[i].user = userId
                /\ ledger[i].service = body.serviceId
                /\ startOfDayL <= ledger[i].date
                /\ ledger[i].date <= endOfDayL
                /\ isActive(ledger[i])
    IN  IF body.date <= clock
        THEN "Booking date must be in the future"
        ELSE IF existingBooking
        THEN "You already have a booking for this service on this date"
        ELSE IF ~slotAvailable(ledger, body, DefaultDuration)
        THEN "This time slot is not available"
        ELSE ""

\* variant: the legacy path reserves the default unit of the booking
servicesAfterCreateBookingReserve(svcs, serviceId) ==
    [svcs EXCEPT ![serviceId].availableUnits = @ - 1]

\* createBooking: between validateBookingRequest and the response the handler
\* calls Booking.create and booking.populate only; the Service collection is
\* not written
servicesAfterCreateBooking(svcs, serviceId) == svcs

\* createBooking (legacy - single date).  The handler reads req.body.serviceId;
\* the route's bookingSchema names the field service and strips what it does
\* not name, so a body that came through the route has no serviceId and
\* Booking.create fails on the required path service.
createBooking(caller, body) ==
    LET message == validateBookingRequest(bookings, body, caller.id, now)
        answer(code, reason) ==
            [op |-> "createBooking", code |-> code, reason |-> reason,
             body |-> body]
    IN
    /\ Len(bookings) < MaxBookings
    /\ UNCHANGED <<now, unavailableDates, reqs>>
    /\ services' = IF message = "" /\ "serviceId" \in DOMAIN body
                   THEN servicesAfterCreateBooking(services, body.serviceId)
                   ELSE services
    /\ IF message # ""
       THEN /\ resp' = answer(400, message)
            /\ UNCHANGED bookings
       ELSE IF "serviceId" \notin DOMAIN body
       THEN /\ resp' = answer(400, "Service is required")
            /\ UNCHANGED bookings
       ELSE /\ bookings' = Append(bookings,
                               NewBooking(caller.id, body.serviceId, body.date,
                                          Undefined, 1))
            /\ resp' = answer(201, "")

LegacyDates == {1, 4, 5, 6, 7, InstantsPerDay + 4}

LegacyBodies ==
    {[serviceId |-> 1, date |-> d] : d \in LegacyDates}
    \cup {[serviceId |-> 2, date |-> 4], [date |-> 4]}

LegacyCreateBooking ==
    \E caller \in {Customer, Provider}, body \in LegacyBodies :
        createBooking(caller, body)

LegacyCancelBooking ==
    \E id \in 1..MaxBookings : cancelBooking(Admin, id)

LegacyUpdateBooking ==
    \E id \in 1..MaxBookings : updateBooking(Admin, id, "confirmed", Undefined)

NextLegacy ==
    \/ LegacyCreateBooking
    \/ LegacyCancelBooking
    \/ LegacyUpdateBooking
    \/ Tick

SpecLegacy == Init /\ [][NextLegacy]_vars

\* two instants are within 30 minutes of each other
Within30(d1, d2) ==
    d1 - d2 <= 30 \div MinutesPerInstant /\ d2 - d1 <= 30 \div MinutesPerInstant

isLegacy(booking) == booking.endDate = Undefined

NoTwoClose ==
    \A i, j \in 1..Len(bookings) :
        (/\ i < j
         /\ isLegacy(bookings[i]) /\ isLegacy(bookings[j])
         /\ isActive(bookings[i]) /\ isActive(bookings[j])
         /\ bookings[i].service = bookings[j].service)
        => ~Within30(bookings[i].date, bookings[j].date)

ClashingCreate ==
    /\ resp'.op = "createBooking"
    /\ resp' # resp \/ bookings' # bookings
    /\ "serviceId" \in DOMAIN resp'.body
    /\ \E i \in 1..Len(bookings) :
           /\ bookings[i].service = resp'.body.serviceId
           /\ isActive(bookings[i])
           /\ Within30(bookings[i].date, resp'.body.date)

\* C16 (SpecLegacy): with legacy creations executed one at a time, no listing
\* ever has two active legacy-created bookings whose times are within 30
\* minutes of each other, and a creation whose requested time is within 30
\* minutes of an active booking of the listing is rejected and adds no booking.
C16_NoDoubleBooking ==
    /\ []NoTwoClose
    /\ [][ClashingCreate => (resp'.code # 201 /\ bookings' = bookings)]_vars

\* another user was refused a time 30 minutes after the active legacy booking
\* of a customer on the listing, which stays the only booking
C16_Witness ==
    /\ resp.op = "createBooking" /\ resp.code = 400
    /\ resp.reason = "This time slot is not available"
    /\ resp.body = [serviceId |-> 1, date |-> 6]
    /\ Len(bookings) = 1
    /\ bookings[1].service = 1 /\ bookings[1].date = 4
    /\ isLegacy(bookings[1]) /\ isActive(bookings[1])


----------------------------------------------------------------------------
\* the caller is an admin, the user of the booking, or the provider of the
\* booked listing
MayChangeStatus(caller, booking) ==
    \/ caller.role = "admin"
    \/ booking.user = caller.id
    \/ provider(booking.service) = caller.id

\* C17 (Spec): a status transition requested through updateBooking by the
\* provider of the booked listing, by the user of the booking or by an admin
\* is not refused as unauthorized (403); only other callers are.
C17_ProviderAuthorized ==
    [][\A caller \in Callers, id \in 1..MaxBookings, status \in BookingStatus :
          (/\ BookingExists(id)
           /\ MayChangeStatus(caller, bookings[id])
           /\ status # bookings[id].status
           /\ updateBooking(caller, id, status, Undefined))
          => resp'.code # 403]_vars


----------------------------------------------------------------------------
\* two different requests for the same listing both completed the reserve
\* step and were answered 201
BothReserved(r1, r2) ==
    /\ r1 # r2
    /\ Succeeded(r1) /\ Succeeded(r2)
    /\ reqs[r1].serviceId = reqs[r2].serviceId

\* C18 (SpecConc), as amended: two simultaneous inventory-booking requests for
\* a listing's last unit can both pass the availability check and both
\* complete the reserve step; each writes the count it computed from its own
\* read, so the stored availableUnits ends at 0 with two active bookings on
\* the one unit, and it is never below 0.
C18_RaceAmended ==
    /\ \A s \in Listings : services[s].availableUnits >= 0
    /\ \A r1, r2 \in Reqs :
           BothReserved(r1, r2) =>
               /\ services[reqs[r1].serviceId].availableUnits = 0
               /\ reqs[r1].id # reqs[r2].id
               /\ \A r \in {r1, r2} :
                      /\ bookings[reqs[r].id].service = reqs[r].serviceId
                      /\ bookings[reqs[r].id].status = "pending"

\* C18 as stated: when both requests for the last unit have completed the
\* reserve step, the stored availableUnits is below 0.
C18_RaceAsStated ==
    \A r1, r2 \in Reqs :
        BothReserved(r1, r2) =>
            services[reqs[r1].serviceId].availableUnits < 0

\* both requests for the single unit of a listing were answered 201
C18_Witness ==
    \E r1, r2 \in Reqs :
        /\ BothReserved(r1, r2)
        /\ services[reqs[r1].serviceId].totalUnits = 1
        /\ services[reqs[r1].serviceId].availableUnits = 0


----------------------------------------------------------------------------
(* SpecPolicy: the booking-length policy of listing 1 under updateInventory
   and bulkUpdateInventory, and the bookings made under it *)

\* bodies of PUT /:id/inventory: every policy with minBookingDays from 0 up
PolicyBodies ==
    {[DefaultInventory EXCEPT !.minBookingDays = m, !.maxBookingDays = x] :
        m \in 0..MaxDays, x \in 1..MaxDays}

\* batches of the bulk update: one item writing one policy field
PolicyBatches ==
    {<<[serviceId |-> 1, set |-> ("minBookingDays" :> m)]>> : m \in 0..MaxDays}
    \cup {<<[serviceId |-> 1, set |-> ("maxBookingDays" :> x)]>> : x \in 1..MaxDays}

\* a same-day stay, and stays of one and of two days
PolicyStays == {<<1, 1>>, <<1, 1 + TicksPerDay>>, <<1, 1 + 2 * TicksPerDay>>}

PolicyUpdateInventory ==
    \E body \in PolicyBodies : updateInventory(Admin, 1, body)

PolicyBulkUpdateInventory ==
    \E updates \in PolicyBatches : bulkUpdateInventory(Admin, updates)

PolicyCreateInventoryBooking ==
    \E stay \in PolicyStays :
        createInventoryBooking(Customer, 1, stay[1], stay[2], 1)

PolicyCancelBooking ==
    \E id \in 1..MaxBookings : cancelBooking(Customer, id)

NextPolicy ==
    \/ PolicyUpdateInventory
    \/ PolicyBulkUpdateInventory
    \/ PolicyCreateInventoryBooking
    \/ PolicyCancelBooking

SpecPolicy == Init /\ [][NextPolicy]_vars

\* C19 (SpecPolicy): whatever updateInventory and bulkUpdateInventory requests
\* came before, an inventory-aware booking request with startDate = endDate
\* is rejected and creates no booking: no answer 201 and no stored booking has
\* its end date equal to its start date.
C19_SameDayRejected ==
    /\ (resp.op = "createInventoryBooking" /\ resp.code = 201)
           => resp.startDate # resp.endDate
    /\ \A i \in 1..Len(bookings) : bookings[i].endDate # bookings[i].date


----------------------------------------------------------------------------
\* C20 (SpecInventory): a successful cancelBooking of a booking with units u
\* sets availableUnits of its listing to min(totalUnits, availableUnits + u)
\* and the status of the booking to cancelled, and changes nothing else; the
\* cap at totalUnits holds whatever the inventory was changed to between the
\* reservation and the cancellation.
C20_CancelEffect ==
    [][(resp'.op = "cancelBooking" /\ resp'.code = 200 /\ bookings' # bookings)
       => \E i \in 1..Len(bookings) :
             LET booking == bookings[i]
                 inv     == services[booking.service]
             IN  /\ booking.status # "cancelled"
                 /\ bookings' = [bookings EXCEPT ![i].status = "cancelled"]
                 /\ services' = [services EXCEPT
                        ![booking.service].availableUnits =
                            Min(inv.totalUnits, inv.availableUnits + booking.units)]]_vars

\* the second of two bookings of listing 1 was just cancelled and the listing
\* shows all its units available although the first booking is still pending:
\* the inventory was changed between the reservations and the cancellation
C20_Witness ==
    /\ resp.op = "cancelBooking" /\ resp.code = 200
    /\ Len(bookings) = 2
    /\ bookings[1].service = 1 /\ bookings[1].status = "pending"
    /\ bookings[2].service = 1 /\ bookings[2].status = "cancelled"
    /\ services[1].availableUnits = services[1].totalUnits


----------------------------------------------------------------------------
\* C21 (SpecCalendar): after any sequence of blockDates and unblockDates
\* requests, whatever their dates arrays (arrays that repeat a date
\* included), the unavailable dates of a listing hold no calendar day more
\* than once.
C21_NoDuplicateDays ==
    \A s \in Listings :
        \A i, j \in 1..Len(unavailableDates[s]) :
            i # j => dateStr(unavailableDates[s][i]) # dateStr(unavailableDates[s][j])


----------------------------------------------------------------------------
\* C22 (SpecLegacy): a legacy single-date creation, accepted or rejected,
\* leaves the inventory record of every listing (totalUnits, availableUnits,
\* minBookingDays, maxBookingDays) unchanged.
C22_LegacyLeavesInventory ==
    [][(resp'.op = "createBooking" /\ (resp' # resp \/ bookings' # bookings))
       => services' = services]_vars

\* a legacy booking of listing 1 was just created and the listing still has
\* its unit available
C22_Witness ==
    /\ resp.op = "createBooking" /\ resp.code = 201
    /\ bookings[Len(bookings)].service = 1
    /\ isLegacy(bookings[Len(bookings)])
    /\ services[1] = DefaultInventory


----------------------------------------------------------------------------
\* C23 (Spec): cancelBooking is refused as unauthorized (403) for every
\* caller who is neither an admin nor the user of the booking, whatever the
\* role of the caller (the provider of the booked listing included), and the
\* refused request changes neither the ledger nor any inventory.
C23_CancelRefusedForOthers ==
    [][/\ (resp'.op = "cancelBooking" /\ resp'.code # 403)
          => \A caller \in Callers, id \in 1..MaxBookings :
                (/\ BookingExists(id)
                 /\ caller.role # "admin"
                 /\ bookings[id].user # caller.id)
                => ~cancelBooking(caller, id)
       /\ (resp'.op = "cancelBooking" /\ resp'.code = 403)
          => (bookings' = bookings /\ services' = services)]_vars

\* the provider of listing 1 was refused the cancellation of the pending
\* booking a customer holds on it
C23_Witness ==
    /\ resp.op = "cancelBooking" /\ resp.code = 403
    /\ Len(bookings) >= 1
    /\ bookings[1].service = 1 /\ provider(1) = Provider.id
    /\ bookings[1].user = Customer.id
    /\ bookings[1].status = "pending"
    /\ services[1].availableUnits = 0


----------------------------------------------------------------------------
\* C24 (SpecInventory): a createInventoryBooking request that fails, for
\* whatever reason, leaves the ledger and the inventory of every listing as
\* they were: no booking remains from a failed request.
C24_FailedCreateLeavesNothing ==
    [][(/\ resp'.op = "createInventoryBooking"
        /\ resp'.code # 201
        /\ (resp' # resp \/ bookings' # bookings))
       => (bookings' = bookings /\ services' = services)]_vars


----------------------------------------------------------------------------
\* C25 (Spec): a step that changes the status of a booking to confirmed or to
\* completed leaves every inventory unchanged, and the units of a completed
\* booking are never given back: a completed booking stays completed, no
\* updateBooking request changes an inventory, and a cancelBooking request
\* changes an inventory only by cancelling a pending or confirmed booking.
C25_ConfirmCompleteKeepUnits ==
    [][/\ \A i \in 1..Len(bookings) :
             /\ (/\ bookings'[i].status \in {"confirmed", "completed"}
                 /\ bookings'[i].status # bookings[i].status)
                => services' = services
             /\ bookings[i].status = "completed"
                => bookings'[i].status = "completed"
       /\ resp'.op = "updateBooking" => services' = services
       /\ (resp'.op = "cancelBooking" /\ services' # services)
          => \E i \in 1..Len(bookings) :
                /\ bookings[i].status \in {"pending", "confirmed"}
                /\ bookings'[i].status = "cancelled"
                /\ \A s \in Listings \ {bookings[i].service} :
                       services'[s] = services[s]]_vars

\* the only booking is completed, its cancellation was just refused and its
\* unit is still reserved
C25_Witness ==
    /\ Len(bookings) = 1
    /\ bookings[1].status = "completed"
    /\ resp.op = "cancelBooking" /\ resp.code = 400
    /\ services[bookings[1].service].totalUnits = 1
    /\ services[bookings[1].service].availableUnits = 0


----------------------------------------------------------------------------
(* SpecLegacyCancel: legacy bookings of listing 1 and their cancellation,
   while an admin sets the unit counts of the listing *)

LegacyCancelBodies ==
    {[DefaultInventory EXCEPT !.totalUnits = t, !.availableUnits = a] :
        t \in 1..MaxUnits, a \in 0..MaxUnits}

LcUpdateInventory ==
    \E body \in LegacyCancelBodies : updateInventory(Admin, 1, body)

LcCreateBooking ==
    \E caller \in {Customer, Provider}, d \in {4, 7} :
        createBooking(caller, [serviceId |-> 1, date |-> d])

LcCancelBooking ==
    \E caller \in {Customer, Admin}, id \in 1..MaxBookings :
        cancelBooking(caller, id)

NextLegacyCancel ==
    \/ LcUpdateInventory
    \/ LcCreateBooking
    \/ LcCancelBooking

SpecLegacyCancel == Init /\ [][NextLegacyCancel]_vars

\* C26 (SpecLegacyCancel): cancelling a booking that was created through the
\* legacy single-date path, which reserved no unit, leaves availableUnits of
\* its listing unchanged.
C26_LegacyCancelKeepsUnits ==
    [][(/\ resp'.op = "cancelBooking" /\ resp'.code = 200
        /\ \E i \in 1..Len(bookings) :
               /\ isLegacy(bookings[i])
               /\ bookings[i].status # "cancelled"
               /\ bookings'[i].status = "cancelled")
       => services' = services]_vars


----------------------------------------------------------------------------
(* Requests that interleave at their database calls: one call of one request
   per step.  Every request carries its handler (op), its caller, the
   booking it names (id) and the listing of that booking (serviceId); what
   it has read so far is kept in its record. *)

\* cancelBooking: Booking.findById, then the checks made on the document read
RaceCancelFind(r) ==
    /\ reqs[r].pc = "cancelFind"
    /\ LET booking == bookings[reqs[r].id]
           caller  == reqs[r].caller
           canCancel ==
               \/ caller.role = "admin"
               \/ IdToString(booking.user) = IdToString(caller.id)
               \/ (caller.role = "provider" /\ serviceIsCaller(booking, caller))
       IN  IF ~canCancel
           THEN Goto(r, "done", [code |-> 403])
           ELSE IF booking.status = "cancelled" \/ isCompleted(booking)
           THEN Goto(r, "done", [code |-> 400])
           ELSE IF booking.units > 0
           THEN Goto(r, "releaseRead", [units |-> booking.units])
           ELSE Goto(r, "cancelSave", <<>>)
    /\ UNCHANGED <<services, bookings, now, unavailableDates, resp>>

\* updateInventoryAfterBooking(booking.service, 'release', units):
\* Service.findById and newAvailableUnits
RaceReleaseRead(r) ==
    /\ reqs[r].pc = "releaseRead"
    /\ Goto(r, "releaseWrite",
            [newAvailableUnits |->
                 releaseUnits(services[reqs[r].serviceId], reqs[r].units)])
    /\ UNCHANGED <<services, bookings, now, unavailableDates, resp>>

\* updateInventoryAfterBooking: Service.findByIdAndUpdate
RaceReleaseWrite(r) ==
    /\ reqs[r].pc = "releaseWrite"
    /\ services' = [services EXCEPT
           ![reqs[r].serviceId].availableUnits =
               writtenAvailableUnits(@, reqs[r].newAvailableUnits)]
    /\ Goto(r, "cancelSave", <<>>)
    /\ UNCHANGED <<bookings, now, unavailableDates, resp>>

\* booking.status = 'cancelled'; booking.save(), then the response
RaceCancelSave(r) ==
    /\ reqs[r].pc = "cancelSave"
    /\ bookings' = [bookings EXCEPT ![reqs[r].id].status = "cancelled"]
    /\ Goto(r, "done", [code |-> 200])
    /\ UNCHANGED <<services, now, unavailableDates, resp>>

----------------------------------------------------------------------------
(* SpecCancelRace: parallel cancelBooking requests on the pending bookings
   of listing 1, each of one unit, which together took the units the listing
   lacks *)

InitCancelRace ==
    /\ \E n \in 1..MaxBookings :
          /\ bookings = [i \in 1..n |->
                            NewBooking(Customer.id, 1, ConcStay[1], ConcStay[2], ConcUnits)]
          /\ services = [s \in Listings |->
                            IF s = 1
                            THEN [DefaultInventory EXCEPT
                                      !.totalUnits = MaxBookings,
                                      !.availableUnits = MaxBookings - n]
                            ELSE DefaultInventory]
          /\ reqs \in [Reqs -> {[pc |-> "cancelFind", op |-> "cancelBooking",
                                  caller |-> c, id |-> i, serviceId |-> 1] :
                                    c \in Callers, i \in 1..n}]
    /\ now = 0
    /\ unavailableDates = NoBlockedDates
    /\ resp = Idle

NextCancelRace ==
    \/ \E r \in Reqs : RaceCancelFind(r)
    \/ \E r \in Reqs : RaceReleaseRead(r)
    \/ \E r \in Reqs : RaceReleaseWrite(r)
    \/ \E r \in Reqs : RaceCancelSave(r)

SpecCancelRace == InitCancelRace /\ [][NextCancelRace]_vars

\* C27 (SpecCancelRace): however cancelBooking requests interleave at their
\* database calls, the units of a booking are released at most once:
\* availableUnits of the listing never grows by more than the units of the
\* bookings the requests name.
C27_ReleasedAtMostOnce ==
    services[1].availableUnits
        <= (services[1].totalUnits - Len(bookings) * ConcUnits)
               + Cardinality({reqs[r].id : r \in Reqs}) * ConcUnits


----------------------------------------------------------------------------
\* updateBooking: Booking.findById(...).populate, the authorization check and
\* the decision to validate the transition
RaceUpdateFind(r) ==
    /\ reqs[r].pc = "updateFind"
    /\ LET booking == bookings[reqs[r].id]
           caller  == reqs[r].caller
       IN  IF caller.role # "admin"
              /\ PopulatedToString(booking.user) # IdToString(caller.id)
           THEN Goto(r, "done", [code |-> 403])
           ELSE IF reqs[r].status # booking.status
           THEN Goto(r, "updateStatusFind", <<>>)
           ELSE Goto(r, "updateWrite", <<>>)
    /\ UNCHANGED <<services, bookings, now, unavailableDates, resp>>

\* updateBookingStatus: its own Booking.findById and the transition check
RaceUpdateStatusFind(r) ==
    /\ reqs[r].pc = "updateStatusFind"
    /\ LET transition ==
               updateBookingStatus(bookings[reqs[r].id], reqs[r].status,
                                   reqs[r].caller.id, reqs[r].caller.role, now)
       IN  IF transition # 200
           THEN Goto(r, "done", [code |-> transition])
           ELSE Goto(r, "updateWrite", <<>>)
    /\ UNCHANGED <<services, bookings, now, unavailableDates, resp>>

\* updateBooking: Booking.findByIdAndUpdate(bookingId, {status}), then the
\* response
RaceUpdateWrite(r) ==
    /\ reqs[r].pc = "updateWrite"
    /\ bookings' = [bookings EXCEPT ![reqs[r].id].status = reqs[r].status]
    /\ Goto(r, "done", [code |-> 200])
    /\ UNCHANGED <<services, now, unavailableDates, resp>>

----------------------------------------------------------------------------
(* SpecStatusRace: an updateBooking request with a status and cancelBooking
   requests on the one booking of listing 1, in parallel *)

InitStatusRace ==
    /\ \E st \in {"pending", "confirmed"} :
          bookings = <<[NewBooking(Customer.id, 1, ConcStay[1], ConcStay[2], ConcUnits)
                           EXCEPT !.status = st]>>
    /\ services = [s \in Listings |->
                      IF s = 1
                      THEN [DefaultInventory EXCEPT !.availableUnits = 0]
                      ELSE DefaultInventory]
    /\ LET cancels ==
               {[pc |-> "cancelFind", op |-> "cancelBooking",
                 caller |-> c, id |-> 1, serviceId |-> 1] : c \in {Customer, Admin}}
           updates ==
               {[pc |-> "updateFind", op |-> "updateBooking",
                 caller |-> c, id |-> 1, serviceId |-> 1, status |-> st] :
                    c \in {Customer, Admin}, st \in BookingStatus}
       IN  \* request 1 is the status update, the others are cancellations
           reqs \in {q \in [Reqs -> cancels \cup updates] :
                        \A r \in Reqs : q[r] \in updates <=> r = 1}
    /\ now \in 0..MaxNow
    /\ unavailableDates = NoBlockedDates
    /\ resp = Idle

NextStatusRace ==
    \/ \E r \in Reqs : RaceCancelFind(r)
    \/ \E r \in Reqs : RaceReleaseRead(r)
    \/ \E r \in Reqs : RaceReleaseWrite(r)
    \/ \E r \in Reqs : RaceCancelSave(r)
    \/ \E r \in Reqs : RaceUpdateFind(r)
    \/ \E r \in Reqs : RaceUpdateStatusFind(r)
    \/ \E r \in Reqs : RaceUpdateWrite(r)

SpecStatusRace == InitStatusRace /\ [][NextStatusRace]_vars

\* C28 (SpecStatusRace): however an updateBooking request and a cancelBooking
\* request on the same booking interleave at their database calls, the stored
\* status never changes from cancelled or completed to another value.
C28_TerminalStatusStays ==
    [][\A i \in 1..Len(bookings) :
          bookings[i].status \in {"cancelled", "completed"}
          => bookings'[i].status = bookings[i].status]_vars


----------------------------------------------------------------------------
\* updateInventory: Service.findById, authorization and the two tests on the
\* body (the body passed inventoryUpdateSchema on the route)
RaceInventoryFind(r) ==
    /\ reqs[r].pc = "inventoryFind"
    /\ LET body   == reqs[r].body
           caller == reqs[r].caller
       IN  IF caller.role # "admin"
              /\ IdToString(provider(reqs[r].serviceId)) # IdToString(caller.id)
           THEN Goto(r, "done", [code |-> 403])
           ELSE IF body.availableUnits > body.totalUnits
                   \/ body.minBookingDays > body.maxBookingDays
           THEN Goto(r, "done", [code |-> 400])
           ELSE Goto(r, "inventoryWrite", <<>>)
    /\ UNCHANGED <<services, bookings, now, unavailableDates, resp>>

\* updateInventory: Service.findByIdAndUpdate(id, {inventory: {...}}), then
\* the response
RaceInventoryWrite(r) ==
    /\ reqs[r].pc = "inventoryWrite"
    /\ services' = [services EXCEPT ![reqs[r].serviceId] =
           [totalUnits     |-> reqs[r].body.totalUnits,
            availableUnits |-> reqs[r].body.availableUnits,
            minBookingDays |-> reqs[r].body.minBookingDays,
            maxBookingDays |-> reqs[r].body.maxBookingDays]]
    /\ Goto(r, "done", [code |-> 200])
    /\ UNCHANGED <<bookings, now, unavailableDates, resp>>

----------------------------------------------------------------------------
(* SpecInventoryRace: an updateInventory request on listing 1 in parallel
   with cancelBooking requests on its one pending booking *)

InitInventoryRace ==
    /\ bookings = <<NewBooking(Customer.id, 1, ConcStay[1], ConcStay[2], ConcUnits)>>
    /\ \E t \in 1..MaxUnits, a \in 0..MaxUnits :
          /\ a <= t
          /\ services = [s \in Listings |->
                            IF s = 1
                            THEN [DefaultInventory EXCEPT !.totalUnits = t,
                                                          !.availableUnits = a]
                            ELSE DefaultInventory]
    /\ LET cancels ==
               {[pc |-> "cancelFind", op |-> "cancelBooking",
                 caller |-> c, id |-> 1, serviceId |-> 1] : c \in {Customer, Provider}}
           updates ==
               {[pc |-> "inventoryFind", op |-> "updateInventory",
                 caller |-> c, serviceId |-> 1, body |-> body] :
                    c \in {Customer, Admin},
                    body \in {b \in InventoryBodies : inventoryUpdateSchema(b)}}
       IN  \* request 1 is the inventory update, the others are cancellations
           reqs \in {q \in [Reqs -> cancels \cup updates] :
                        \A r \in Reqs : q[r] \in updates <=> r = 1}
    /\ now = 0
    /\ unavailableDates = NoBlockedDates
    /\ resp = Idle

NextInventoryRace ==
    \/ \E r \in Reqs : RaceCancelFind(r)
    \/ \E r \in Reqs : RaceReleaseRead(r)
    \/ \E r \in Reqs : RaceReleaseWrite(r)
    \/ \E r \in Reqs : RaceCancelSave(r)
    \/ \E r \in Reqs : RaceInventoryFind(r)
    \/ \E r \in Reqs : RaceInventoryWrite(r)

SpecInventoryRace == InitInventoryRace /\ [][NextInventoryRace]_vars

\* C30 (SpecInventoryRace): however the release of a cancelBooking request
\* interleaves with an updateInventory request on the same listing, the
\* stored availableUnits never exceeds the stored totalUnits.
C30_AvailableWithinTotal ==
    \A s \in Listings : services[s].availableUnits <= services[s].totalUnits


----------------------------------------------------------------------------
\* validateBookingRequest: the test on the date and the first Booking.findOne
\* (a booking of the user for the service on the same day)
RaceValidateExisting(r) ==
    /\ reqs[r].pc = "validateExisting"
    /\ LET body        == reqs[r].body
           startOfDayL == (body.date \div InstantsPerDay) * InstantsPerDay
           endOfDayL   == startOfDayL + InstantsPerDay - 1
           existingBooking ==
               \E i \in 1..Len(bookings) :
                   /\ bookings[i].user = reqs[r].caller.id
                   /\ bookings[i].service = body.serviceId
                   /\ startOfDayL <= bookings[i].date
                   /\ bookings[i].date <= endOfDayL
                   /\ isActive(bookings[i])
       IN  IF body.date <= now \/ existingBooking
           THEN Goto(r, "done", [code |-> 400])
           ELSE Goto(r, "validateSlot", <<>>)
    /\ UNCHANGED <<services, bookings, now, unavailableDates, resp>>

\* validateBookingRequest: checkAvailability, the second Booking.findOne
RaceValidateSlot(r) ==
    /\ reqs[r].pc = "validateSlot"
    /\ IF ~slotAvailable(bookings, reqs[r].body, DefaultDuration)
       THEN Goto(r, "done", [code |-> 400])
       ELSE Goto(r, "create", <<>>)
    /\ UNCHANGED <<services, bookings, now, unavailableDates, resp>>

\* createBooking: Booking.create, then the response
RaceCreate(r) ==
    /\ reqs[r].pc = "create"
    /\ bookings' = Append(bookings,
           NewBooking(reqs[r].caller.id, reqs[r].body.serviceId,
                      reqs[r].body.date, Undefined, 1))
    /\ Goto(r, "done", [code |-> 201])
    /\ UNCHANGED <<services, now, unavailableDates, resp>>

----------------------------------------------------------------------------
(* SpecLegacyRace: legacy createBooking requests of different users for
   listing 1, in parallel (instants in quarter hours) *)

RaceUsers == <<Customer, Provider, Admin>>

InitLegacyRace ==
    /\ bookings = <<>>
    /\ services = [s \in Listings |-> DefaultInventory]
    /\ reqs \in {q \in [Reqs -> {[pc |-> "validateExisting", op |-> "createBooking",
                                  caller |-> c, serviceId |-> 1,
                                  body |-> [serviceId |-> 1, date |-> d]] :
                                    c \in Range(RaceUsers), d \in {1, 4, 5, 7}}] :
                    \A r \in Reqs : q[r].caller = RaceUsers[((r - 1) % Len(RaceUsers)) + 1]}
    /\ now \in 0..MaxNow
    /\ unavailableDates = NoBlockedDates
    /\ resp = Idle

NextLegacyRace ==
    \/ \E r \in Reqs : RaceValidateExisting(r)
    \/ \E r \in Reqs : RaceValidateSlot(r)
    \/ \E r \in Reqs : RaceCreate(r)

SpecLegacyRace == InitLegacyRace /\ [][NextLegacyRace]_vars

\* C29 (SpecLegacyRace): when legacy createBooking requests of different
\* users for the same listing and the same time run in parallel, at most one
\* of them creates a booking.
C29_AtMostOneCreates ==
    \A r1, r2 \in Reqs :
        (/\ r1 # r2
         /\ reqs[r1].caller # reqs[r2].caller
         /\ reqs[r1].body = reqs[r2].body
         /\ reqs[r1].pc = "done" /\ reqs[r1].code = 201)
        => ~(reqs[r2].pc = "done" /\ reqs[r2].code = 201)

====
